---- MODULE Spec2Model ----
(***************************************************************************)
(* Model of NetworkRequestReponseEncrypterDecrypter.py: the AES-CBC /      *)
(* raw-DEFLATE / base64 envelope (encrypt_aes_payload,                     *)
(* decrypt_and_decompress_payload), the request driver (perform_request)   *)
(* and the batch loop of main.                                             *)
(*                                                                         *)
(* Python str and bytes values are sequences of code points / byte values. *)
(* JSON values are tagged records [t |-> tag, v |-> payload]:              *)
(*   "str"  v = sequence of code points                                    *)
(*   "obj"  v = sequence of <<key, value>> pairs, keys distinct, in        *)
(*              insertion order (a Python dict)                            *)
(*   "arr"  v = sequence of values                                         *)
(*   "int"  v = a natural number                                           *)
(*   "lit"  v = "true" | "false" | "null"                                  *)
(***************************************************************************)
EXTENDS Integers, Sequences, FiniteSets, TLC

\* ------------------------------------------------------------------------
\* String literals of the source, as code points.
\* ------------------------------------------------------------------------
S_error == <<101,114,114,111,114>>
S_token == <<116,111,107,101,110>>
S_msg == <<109,115,103>>
S_data == <<100,97,116,97>>
S_Error == <<69,114,114,111,114>>
S_AesErr == <<65,69,83,32,69,110,99,114,121,112,116,105,111,110,32,69,114,114,111,114,58,32>>
S_RsaErr == <<82,83,65,32,69,110,99,114,121,112,116,105,111,110,32,69,114,114,111,114,58,32>>
S_DecFailed == <<68,101,99,114,121,112,116,105,111,110,32,70,97,105,108,101,100,58,32>>
S_InvalidPadding == <<73,110,118,97,108,105,100,32,112,97,100,100,105,110,103,32,118,97,108,117,101,46>>
S_EncFailed == <<69,110,99,114,121,112,116,105,111,110,32,102,97,105,108,101,100,32,100,117,114,105,110,103,32,112,97,121,108,111,97,100,32,99,114,101,97,116,105,111,110,46>>
S_UnknownError == <<85,110,107,110,111,119,110,32,101,114,114,111,114>>
\* key, iv of perform_request: "cfc0d8be37e5ca838da40740d6723a0f", "7b242d789da2c4c7"
REQ_KEY == <<99,102,99,48,100,56,98,101,51,55,101,53,99,97,56,51,56,100,97,52,48,55,52,48,100,54,55,50,51,97,48,102>>
REQ_IV == <<55,98,50,52,50,100,55,56,57,100,97,50,99,52,99,55>>

\* AES.block_size
BlockSize == 16

\* ------------------------------------------------------------------------
\* Sequence helpers.
\* ------------------------------------------------------------------------
Take(s, n) == SubSeq(s, 1, n)
Drop(s, n) == SubSeq(s, n + 1, Len(s))
Repeat(x, n) == [i \in 1..n |-> x]

\* Python's `needle in hay` for two str values.
Contains(hay, needle) ==
  \E i \in 0..(Len(hay) - Len(needle)) :
     SubSeq(hay, i + 1, i + Len(needle)) = needle

\* Python's str.encode('utf-8'): code points below 0x80 are one byte, those
\* below 0x800 two bytes, the rest of the BMP three bytes.
Utf8Char(c) ==
  IF c < 128 THEN <<c>>
  ELSE IF c < 2048 THEN <<192 + (c \div 64), 128 + (c % 64)>>
  ELSE <<224 + (c \div 4096), 128 + ((c \div 64) % 64), 128 + (c % 64)>>

RECURSIVE Utf8Encode(_)
Utf8Encode(s) ==
  IF s = <<>> THEN <<>>
  ELSE IF Len(s) = 1 THEN Utf8Char(s[1])
  ELSE LET h == Len(s) \div 2
       IN Utf8Encode(Take(s, h)) \o Utf8Encode(Drop(s, h))

\* bytes.decode('utf-8'): [ok, s]. Every byte that is not a continuation
\* byte (10xxxxxx) must lead a well-formed sequence, and every continuation
\* byte must belong to one. Overlong forms and surrogates are errors;
\* four-byte sequences are outside the modelled range of inputs.
IsCont(x) == x >= 128 /\ x < 192

Utf8SeqLen(c) ==
  IF c < 128 THEN 1
  ELSE IF c >= 194 /\ c < 224 THEN 2
  ELSE IF c >= 224 /\ c < 240 THEN 3
  ELSE 0

Utf8CodePoint(b, i) ==
  IF Utf8SeqLen(b[i]) = 1 THEN b[i]
  ELSE IF Utf8SeqLen(b[i]) = 2 THEN (b[i] - 192) * 64 + (b[i + 1] - 128)
  ELSE (b[i] - 224) * 4096 + (b[i + 1] - 128) * 64 + (b[i + 2] - 128)

Utf8WellFormed(b, i) ==
  /\ Utf8SeqLen(b[i]) > 0
  /\ i + Utf8SeqLen(b[i]) - 1 <= Len(b)
  /\ \A j \in (i + 1)..(i + Utf8SeqLen(b[i]) - 1) : IsCont(b[j])
  /\ (i + Utf8SeqLen(b[i]) <= Len(b) => ~IsCont(b[i + Utf8SeqLen(b[i])]))
  /\ (Utf8SeqLen(b[i]) = 3 =>
        /\ Utf8CodePoint(b, i) >= 2048
        /\ ~(Utf8CodePoint(b, i) >= 55296 /\ Utf8CodePoint(b, i) < 57344))

\* leads: the places of the bytes that are not continuation bytes.
Utf8DecodeLeads(b, leads) ==
  IF /\ (Len(b) > 0 => ~IsCont(b[1]))
     /\ \A k \in 1..Len(leads) : Utf8WellFormed(b, leads[k])
  THEN [ok |-> TRUE, s |-> [k \in 1..Len(leads) |-> Utf8CodePoint(b, leads[k])]]
  ELSE [ok |-> FALSE, s |-> <<>>]

Utf8Decode(b) ==
  Utf8DecodeLeads(b, SelectSeq([i \in 1..Len(b) |-> i], LAMBDA i : ~IsCont(b[i])))

\* ------------------------------------------------------------------------
\* base64 (base64.b64encode, base64.b64decode with validate=False).
\* ------------------------------------------------------------------------
B64Char(i) ==
  IF i < 26 THEN 65 + i
  ELSE IF i < 52 THEN 97 + (i - 26)
  ELSE IF i < 62 THEN 48 + (i - 52)
  ELSE IF i = 62 THEN 43 ELSE 47

\* The 6-bit value of a character, 64 for a character outside the alphabet.
B64Val(c) ==
  IF c >= 65 /\ c <= 90 THEN c - 65
  ELSE IF c >= 97 /\ c <= 122 THEN c - 97 + 26
  ELSE IF c >= 48 /\ c <= 57 THEN c - 48 + 52
  ELSE IF c = 43 THEN 62
  ELSE IF c = 47 THEN 63 ELSE 64

B64Pad == 61

\* The byte at place i, 0 beyond the end (the zero bits of the last group).
ByteAt(b, i) == IF i <= Len(b) THEN b[i] ELSE 0

\* binascii.b2a_base64: each group of three bytes gives four characters;
\* a last group of one or two bytes is closed with '='.
b64encode(b) ==
  LET n == Len(b)
      groups == (n + 2) \div 3
      ch(k) ==
        LET g  == (k - 1) \div 4
            r  == (k - 1) % 4
            b1 == ByteAt(b, 3 * g + 1)
            b2 == ByteAt(b, 3 * g + 2)
            b3 == ByteAt(b, 3 * g + 3)
        IN CASE r = 0 -> B64Char(b1 \div 4)
             [] r = 1 -> B64Char((b1 % 4) * 16 + (b2 \div 16))
             [] r = 2 -> IF 3 * g + 2 > n THEN B64Pad
                         ELSE B64Char((b2 % 16) * 4 + (b3 \div 64))
             [] OTHER -> IF 3 * g + 3 > n THEN B64Pad ELSE B64Char(b3 % 64)
  IN [k \in 1..(4 * groups) |-> ch(k)]

SetMin(S) == CHOOSE m \in S : \A k \in S : m <= k

\* binascii.a2b_base64 in its non-strict mode: [ok, bytes]. Characters
\* outside the alphabet are skipped. The loop keeps quad, the place in the
\* current group of four data characters, and pads, the '=' seen since the
\* last data character while quad >= 2; it stops at the first '=' with
\* quad >= 2 and quad + pads >= 4, and otherwise fails unless it ends with
\* quad = 0. Here: data holds the places of the data characters, and the
\* loop stops after the first m-th data character (m % 4 >= 2) that is
\* followed, before the next data character, by 4 - m % 4 or more '='.
A2bPadsAfter(s, data, m) ==
  Cardinality({j \in (data[m] + 1)..((IF m < Len(data) THEN data[m + 1] ELSE Len(s) + 1) - 1) :
                 s[j] = B64Pad})

A2bStops(s, data) ==
  {m \in 1..Len(data) : m % 4 >= 2 /\ (m % 4) + A2bPadsAfter(s, data, m) >= 4}

A2bByte(s, data, j) ==
  CASE (j - 1) % 3 = 0 ->
         B64Val(s[data[4 * ((j - 1) \div 3) + 1]]) * 4
         + (B64Val(s[data[4 * ((j - 1) \div 3) + 2]]) \div 16)
    [] (j - 1) % 3 = 1 ->
         (B64Val(s[data[4 * ((j - 1) \div 3) + 2]]) % 16) * 16
         + (B64Val(s[data[4 * ((j - 1) \div 3) + 3]]) \div 4)
    [] OTHER ->
         (B64Val(s[data[4 * ((j - 1) \div 3) + 3]]) % 4) * 64
         + B64Val(s[data[4 * ((j - 1) \div 3) + 4]])

\* The bytes of the first `used` data characters.
A2bBytes(s, data, used) ==
  [j \in 1..((used \div 4) * 3 + (IF used % 4 = 2 THEN 1 ELSE IF used % 4 = 3 THEN 2 ELSE 0)) |->
     A2bByte(s, data, j)]

A2bResult(s, data, stopSet) ==
  [ok |-> stopSet # {} \/ Len(data) % 4 = 0,
   bytes |-> A2bBytes(s, data, IF stopSet = {} THEN Len(data) ELSE SetMin(stopSet))]

A2bFrom(s, data) == A2bResult(s, data, A2bStops(s, data))

A2bBase64(s) ==
  A2bFrom(s, SelectSeq([i \in 1..Len(s) |-> i], LAMBDA i : B64Val(s[i]) < 64))

\* base64.b64decode(s) for a str s: a non-ASCII character raises ValueError.
b64decode(s) ==
  IF \E i \in 1..Len(s) : s[i] >= 128 THEN [ok |-> FALSE, bytes |-> <<>>]
  ELSE A2bBase64(s)

\* ------------------------------------------------------------------------
\* AES in CBC mode (Cryptodome.Cipher.AES). The block permutation itself is
\* library code; it is represented by a keyed bijection on 16-byte blocks
\* (add the round-key byte, rotate the block by one place), which keeps what the
\* envelope relies on: decrypt inverts encrypt under the same key, and CBC
\* chains each block with the previous ciphertext block.
\* ------------------------------------------------------------------------
RECURSIVE XorByte(_, _)
XorByte(a, b) ==
  IF a = 0 THEN b
  ELSE IF b = 0 THEN a
  ELSE ((a + b) % 2) + 2 * XorByte(a \div 2, b \div 2)

XorBlock(x, y) == [j \in 1..BlockSize |-> XorByte(x[j], y[j])]

\* The round-key byte for place j: every byte of a 16, 24 or 32 byte key counts.
KeyByte(key, j) ==
  (key[j] + (IF j + BlockSize <= Len(key) THEN key[j + BlockSize] ELSE 0)) % 256

AesEncryptBlock(key, blk) ==
  [j \in 1..BlockSize |-> (blk[(j % BlockSize) + 1] + KeyByte(key, j)) % 256]

AesDecryptBlock(key, blk) ==
  [j \in 1..BlockSize |->
     LET src == ((j + BlockSize - 2) % BlockSize) + 1
     IN (blk[src] + 256 - KeyByte(key, src)) % 256]

\* AES.new(key, AES.MODE_CBC, iv): key of 16, 24 or 32 bytes, iv of one block.
AesNewOk(key, iv) == Len(key) \in {16, 24, 32} /\ Len(iv) = BlockSize

\* Each ciphertext block is the encryption of the plaintext block xor the
\* previous ciphertext block (the iv for the first).
RECURSIVE CbcEncrypt(_, _, _)
CbcChain(key, c, rest) == c \o CbcEncrypt(key, c, rest)

CbcEncrypt(key, prev, data) ==
  IF data = <<>> THEN <<>>
  ELSE CbcChain(key, AesEncryptBlock(key, XorBlock(Take(data, BlockSize), prev)),
                Drop(data, BlockSize))

\* Each plaintext block is the decrypted block xor the previous ciphertext
\* block (the iv for the first).
CbcBlock(data, k) == SubSeq(data, BlockSize * (k - 1) + 1, BlockSize * k)

CbcPlainBlock(key, iv, data, k) ==
  XorBlock(AesDecryptBlock(key, CbcBlock(data, k)), IF k = 1 THEN iv ELSE CbcBlock(data, k - 1))

\* The blocks are decrypted one by one and joined.
CbcJoin(blocks) ==
  [i \in 1..(BlockSize * Len(blocks)) |->
     blocks[((i - 1) \div BlockSize) + 1][((i - 1) % BlockSize) + 1]]

CbcDecrypt(key, iv, data) ==
  CbcJoin([k \in 1..(Len(data) \div BlockSize) |-> CbcPlainBlock(key, iv, data, k)])

\* cipher.encrypt / cipher.decrypt: [ok, bytes]; data that is not a whole
\* number of blocks raises ValueError.
AesCbcEncrypt(key, iv, data) ==
  IF AesNewOk(key, iv) /\ Len(data) % BlockSize = 0
  THEN [ok |-> TRUE, bytes |-> CbcEncrypt(key, iv, data)]
  ELSE [ok |-> FALSE, bytes |-> <<>>]

\* ------------------------------------------------------------------------
\* Padding of encrypt_aes_payload (lines 39-40).
\* ------------------------------------------------------------------------
\* Padding that adds nothing to an aligned plaintext; EncoderPadding tells
\* it from line 39.
PadLenModulo(n) == (BlockSize - (n % BlockSize)) % BlockSize

PadLen(n) == BlockSize - (n % BlockSize)

Pkcs7Pad(bytes) == bytes \o Repeat(PadLen(Len(bytes)), PadLen(Len(bytes)))

\* ------------------------------------------------------------------------
\* Raw DEFLATE (zlib with wbits=-15). The compressor is library code; it is
\* represented by the stored-block form of the format (RFC 1951, 3.2.4): one
\* final block, BTYPE=00, LEN, NLEN, then the bytes. Inflate reads stored
\* blocks, rejects what zlib rejects in them (reserved BTYPE=11, LEN/NLEN
\* mismatch, a truncated stream) and ignores what follows the final block,
\* as zlib.decompress does. Huffman-coded blocks (BTYPE 01, 10) are not
\* interpreted: no input of the model starts a block with them.
\* ------------------------------------------------------------------------
Deflate(bytes) ==
  LET n == Len(bytes)
  IN <<1, n % 256, n \div 256, (65535 - n) % 256, (65535 - n) \div 256>> \o bytes

RECURSIVE Inflate(_)
Inflate(b) ==
  IF Len(b) < 1 THEN [ok |-> FALSE, bytes |-> <<>>, why |-> "truncated"]
  ELSE LET bfinal == b[1] % 2
           btype  == (b[1] \div 2) % 4
       IN IF btype = 3 THEN [ok |-> FALSE, bytes |-> <<>>, why |-> "invalid block type"]
          ELSE IF btype # 0 THEN [ok |-> FALSE, bytes |-> <<>>, why |-> "huffman"]
          ELSE IF Len(b) < 5 THEN [ok |-> FALSE, bytes |-> <<>>, why |-> "truncated"]
          ELSE LET len  == b[2] + 256 * b[3]
                   nlen == b[4] + 256 * b[5]
               IN IF len + nlen # 65535
                    THEN [ok |-> FALSE, bytes |-> <<>>, why |-> "invalid stored block lengths"]
                  ELSE IF Len(b) < 5 + len
                    THEN [ok |-> FALSE, bytes |-> <<>>, why |-> "truncated"]
                  ELSE IF bfinal = 1
                    THEN [ok |-> TRUE, bytes |-> SubSeq(b, 6, 5 + len), why |-> ""]
                  ELSE LET r == Inflate(Drop(b, 5 + len))
                       IN IF r.ok
                          THEN [ok |-> TRUE, bytes |-> SubSeq(b, 6, 5 + len) \o r.bytes, why |-> ""]
                          ELSE r

\* ------------------------------------------------------------------------
\* JSON values and Python dict operations.
\* ------------------------------------------------------------------------
JStr(s) == [t |-> "str", v |-> s]
JObj(pairs) == [t |-> "obj", v |-> pairs]
JArr(items) == [t |-> "arr", v |-> items]
JInt(n) == [t |-> "int", v |-> n]
JLit(l) == [t |-> "lit", v |-> l]
JNull == JLit("null")

IsDict(x) == x.t = "obj"

HasKey(d, k) == \E i \in 1..Len(d.v) : d.v[i][1] = k

\* d.get(k): the value, None (JNull) when the key is missing.
DictGet(d, k) ==
  IF HasKey(d, k)
  THEN d.v[CHOOSE i \in 1..Len(d.v) : d.v[i][1] = k][2]
  ELSE JNull

\* d.get(k, default)
DictGetDefault(d, k, default) == IF HasKey(d, k) THEN DictGet(d, k) ELSE default

\* d[k] = x: an existing key keeps its place.
DictSet(d, k, x) ==
  IF HasKey(d, k)
  THEN JObj([i \in 1..Len(d.v) |-> IF d.v[i][1] = k THEN <<k, x>> ELSE d.v[i]])
  ELSE JObj(Append(d.v, <<k, x>>))

\* Python truthiness of a JSON value.
Truthy(x) ==
  CASE x.t = "str" -> x.v # <<>>
    [] x.t = "obj" -> x.v # <<>>
    [] x.t = "arr" -> x.v # <<>>
    [] x.t = "int" -> x.v # 0
    [] OTHER       -> x.v = "true"

\* d1 == d2 for two dicts of str values: same keys, same values, any order.
DictEq(d1, d2) ==
  /\ Len(d1.v) = Len(d2.v)
  /\ \A i \in 1..Len(d1.v) : HasKey(d2, d1.v[i][1]) /\ DictGet(d2, d1.v[i][1]) = d1.v[i][2]

\* ------------------------------------------------------------------------
\* json.dumps(value, separators=(',', ':'), sort_keys=False, ensure_ascii=True)
\* ------------------------------------------------------------------------
HexChar(d) == IF d < 10 THEN 48 + d ELSE 97 + (d - 10)

EscapeChar(c) ==
  CASE c = 34 -> <<92, 34>>
    [] c = 92 -> <<92, 92>>
    [] c = 10 -> <<92, 110>>
    [] c = 13 -> <<92, 114>>
    [] c = 9  -> <<92, 116>>
    [] c = 8  -> <<92, 98>>
    [] c = 12 -> <<92, 102>>
    [] OTHER  ->
       IF c >= 32 /\ c <= 126 THEN <<c>>
       ELSE <<92, 117, HexChar(c \div 4096), HexChar((c \div 256) % 16),
              HexChar((c \div 16) % 16), HexChar(c % 16)>>

RECURSIVE EscapeBody(_)
EscapeBody(s) ==
  IF s = <<>> THEN <<>>
  ELSE IF Len(s) = 1 THEN EscapeChar(s[1])
  ELSE LET h == Len(s) \div 2
       IN EscapeBody(Take(s, h)) \o EscapeBody(Drop(s, h))

DumpString(s) == <<34>> \o EscapeBody(s) \o <<34>>

RECURSIVE DumpInt(_)
DumpInt(n) == IF n < 10 THEN <<48 + n>> ELSE DumpInt(n \div 10) \o <<48 + (n % 10)>>

RECURSIVE JsonDumps(_), DumpMembers(_), DumpItems(_)
JsonDumps(x) ==
  CASE x.t = "str" -> DumpString(x.v)
    [] x.t = "obj" -> <<123>> \o DumpMembers(x.v) \o <<125>>
    [] x.t = "arr" -> <<91>> \o DumpItems(x.v) \o <<93>>
    [] x.t = "int" -> DumpInt(x.v)
    [] OTHER       -> IF x.v = "true" THEN <<116,114,117,101>>
                      ELSE IF x.v = "false" THEN <<102,97,108,115,101>>
                      ELSE <<110,117,108,108>>

DumpMembers(ps) ==
  IF ps = <<>> THEN <<>>
  ELSE DumpString(Head(ps)[1]) \o <<58>> \o JsonDumps(Head(ps)[2])
       \o (IF Len(ps) > 1 THEN <<44>> ELSE <<>>) \o DumpMembers(Tail(ps))

DumpItems(xs) ==
  IF xs = <<>> THEN <<>>
  ELSE JsonDumps(Head(xs)) \o (IF Len(xs) > 1 THEN <<44>> ELSE <<>>) \o DumpItems(Tail(xs))

\* ------------------------------------------------------------------------
\* json.loads(str): [ok, val]. Objects, arrays, strings, non-negative
\* integers and the literals true, false, null; a duplicate key keeps the
\* last value. Floats, negative numbers, NaN/Infinity and surrogate pairs
\* are outside the modelled range of inputs.
\* ------------------------------------------------------------------------
ParseFail == [ok |-> FALSE, val |-> JNull, next |-> 0]

IsWs(c) == c \in {32, 9, 10, 13}
IsDigit(c) == c >= 48 /\ c <= 57

RECURSIVE SkipWs(_, _)
SkipWs(s, i) == IF i <= Len(s) /\ IsWs(s[i]) THEN SkipWs(s, i + 1) ELSE i

HexVal(c) ==
  IF c >= 48 /\ c <= 57 THEN c - 48
  ELSE IF c >= 97 /\ c <= 102 THEN c - 97 + 10
  ELSE IF c >= 65 /\ c <= 70 THEN c - 65 + 10
  ELSE 16

\* The number of backslashes in a row just before place j, not before from.
BackslashRun(s, from, j) ==
  j - SetMin({k \in from..j : \A m \in k..(j - 1) : s[m] = 92})

\* A backslash that opens an escape: one with an even run before it.
OpensEscape(s, from, p) == s[p] = 92 /\ BackslashRun(s, from, p) % 2 = 0

SimpleEscape(e) ==
  CASE e = 34  -> 34
    [] e = 92  -> 92
    [] e = 47  -> 47
    [] e = 98  -> 8
    [] e = 102 -> 12
    [] e = 110 -> 10
    [] e = 114 -> 13
    [] e = 116 -> 9
    [] OTHER   -> 0

\* Place p, between the opening quote before i and the closing quote at
\* close, starts a character or an escape (it is not inside an escape).
IsToken(s, i, close, p) ==
  /\ ~(p > i /\ OpensEscape(s, i, p - 1))
  /\ ~\E q \in {p - 5, p - 4, p - 3, p - 2} :
         q >= i /\ OpensEscape(s, i, q) /\ q + 1 < close /\ s[q + 1] = 117

TokenValid(s, close, p) ==
  IF s[p] # 92 THEN s[p] >= 32
  ELSE /\ p + 1 < close
       /\ IF s[p + 1] = 117
          THEN p + 5 < close /\ \A k \in 2..5 : HexVal(s[p + k]) < 16
          ELSE SimpleEscape(s[p + 1]) # 0

TokenChar(s, p) ==
  IF s[p] # 92 THEN s[p]
  ELSE IF s[p + 1] = 117
    THEN HexVal(s[p + 2]) * 4096 + HexVal(s[p + 3]) * 256
         + HexVal(s[p + 4]) * 16 + HexVal(s[p + 5])
  ELSE SimpleEscape(s[p + 1])

ParseStringTokens(s, close, tokens) ==
  IF \A k \in 1..Len(tokens) : TokenValid(s, close, tokens[k])
  THEN [ok |-> TRUE, val |-> JStr([k \in 1..Len(tokens) |-> TokenChar(s, tokens[k])]),
        next |-> close + 1]
  ELSE ParseFail

ParseStringBody(s, i, close) ==
  ParseStringTokens(s, close,
    SelectSeq([k \in 1..(close - i) |-> i + k - 1], LAMBDA p : IsToken(s, i, close, p)))

ParseStringTo(s, i, closers) ==
  IF closers = {} THEN ParseFail ELSE ParseStringBody(s, i, SetMin(closers))

\* A string, from just after its opening quote at i - 1: it closes at the
\* first quote that no backslash escapes. Between the quotes a control
\* character is an error, and an escape is \" \\ \/ \b \f \n \r \t or
\* \uXXXX.
ParseString(s, i) ==
  ParseStringTo(s, i, {j \in i..Len(s) : s[j] = 34 /\ BackslashRun(s, i, j) % 2 = 0})

RECURSIVE ParseDigits(_, _, _)
ParseDigits(s, i, n) ==
  IF i <= Len(s) /\ IsDigit(s[i]) THEN ParseDigits(s, i + 1, 10 * n + (s[i] - 48))
  ELSE [ok |-> TRUE, val |-> JInt(n), next |-> i]

RECURSIVE ParseValue(_, _), ParseMembers(_, _, _), ParseItems(_, _, _)

\* After a value of an object: '}' ends it, ',' must be followed by a key.
MemberEnd(s, d, e) ==
  IF e > Len(s) THEN ParseFail
  ELSE IF s[e] = 125 THEN [ok |-> TRUE, val |-> d, next |-> e + 1]
  ELSE IF s[e] = 44 THEN ParseMembers(s, SkipWs(s, e + 1), d)
  ELSE ParseFail

MemberAfterValue(s, acc, key, x) ==
  IF ~x.ok THEN ParseFail ELSE MemberEnd(s, DictSet(acc, key, x.val), SkipWs(s, x.next))

MemberColon(s, acc, key, c) ==
  IF c > Len(s) \/ s[c] # 58 THEN ParseFail
  ELSE MemberAfterValue(s, acc, key, ParseValue(s, SkipWs(s, c + 1)))

MemberAfterKey(s, acc, k) ==
  IF ~k.ok THEN ParseFail ELSE MemberColon(s, acc, k.val.v, SkipWs(s, k.next))

\* From the first key of an object (the opening quote is expected at i).
ParseMembers(s, i, acc) ==
  IF i > Len(s) \/ s[i] # 34 THEN ParseFail
  ELSE MemberAfterKey(s, acc, ParseString(s, i + 1))

ItemEnd(s, items, e) ==
  IF e > Len(s) THEN ParseFail
  ELSE IF s[e] = 93 THEN [ok |-> TRUE, val |-> JArr(items), next |-> e + 1]
  ELSE IF s[e] = 44 THEN ParseItems(s, SkipWs(s, e + 1), items)
  ELSE ParseFail

ItemAfterValue(s, acc, x) ==
  IF ~x.ok THEN ParseFail ELSE ItemEnd(s, Append(acc, x.val), SkipWs(s, x.next))

ParseItems(s, i, acc) == ItemAfterValue(s, acc, ParseValue(s, i))

ObjectAt(s, j) ==
  IF j <= Len(s) /\ s[j] = 125 THEN [ok |-> TRUE, val |-> JObj(<<>>), next |-> j + 1]
  ELSE ParseMembers(s, j, JObj(<<>>))

ArrayAt(s, j) ==
  IF j <= Len(s) /\ s[j] = 93 THEN [ok |-> TRUE, val |-> JArr(<<>>), next |-> j + 1]
  ELSE ParseItems(s, j, <<>>)

ParseValue(s, i) ==
  IF i > Len(s) THEN ParseFail
  ELSE
    CASE s[i] = 34  -> ParseString(s, i + 1)
      [] s[i] = 123 -> ObjectAt(s, SkipWs(s, i + 1))
      [] s[i] = 91  -> ArrayAt(s, SkipWs(s, i + 1))
      [] s[i] = 48  -> [ok |-> TRUE, val |-> JInt(0), next |-> i + 1]
      [] s[i] >= 49 /\ s[i] <= 57 -> ParseDigits(s, i, 0)
      [] s[i] = 116 -> IF SubSeq(s, i, i + 3) = <<116,114,117,101>>
                       THEN [ok |-> TRUE, val |-> JLit("true"), next |-> i + 4] ELSE ParseFail
      [] s[i] = 102 -> IF SubSeq(s, i, i + 4) = <<102,97,108,115,101>>
                       THEN [ok |-> TRUE, val |-> JLit("false"), next |-> i + 5] ELSE ParseFail
      [] s[i] = 110 -> IF SubSeq(s, i, i + 3) = <<110,117,108,108>>
                       THEN [ok |-> TRUE, val |-> JNull, next |-> i + 4] ELSE ParseFail
      [] OTHER      -> ParseFail

JsonLoadsEnd(s, x) ==
  IF x.ok /\ SkipWs(s, x.next) > Len(s)
  THEN [ok |-> TRUE, val |-> x.val]
  ELSE [ok |-> FALSE, val |-> JNull]

JsonLoads(s) == JsonLoadsEnd(s, ParseValue(s, SkipWs(s, 1)))

\* ------------------------------------------------------------------------
\* Exceptions. An exception is [type, msg]; NoExc is a normal completion.
\* Every type raised in this program derives from Exception, which is what
\* the four `except Exception` clauses of the source catch.
\* ------------------------------------------------------------------------
Message ==
  [KeyLen |->
     <<73,110,99,111,114,114,101,99,116,32,65,69,83,32,107,101,121,32,108,101,110,103,116,104>>,
   IvLen |->
     <<73,110,99,111,114,114,101,99,116,32,73,86,32,108,101,110,103,116,104,32,40,105,116,32,109,117,115,116,32,98,101,32,49,54,32,98,121,116,101,115,32,108,111,110,103,41>>,
   BlockAlign |->
     <<68,97,116,97,32,109,117,115,116,32,98,101,32,112,97,100,100,101,100,32,116,111,32,49,54,32,98,121,116,101,32,98,111,117,110,100,97,114,121,32,105,110,32,67,66,67,32,109,111,100,101>>,
   TooLong |->
     <<80,108,97,105,110,116,101,120,116,32,105,115,32,116,111,111,32,108,111,110,103,46>>,
   NoLen |->
     <<111,98,106,101,99,116,32,104,97,115,32,110,111,32,108,101,110,40,41>>,
   NonAscii |->
     <<115,116,114,105,110,103,32,97,114,103,117,109,101,110,116,32,115,104,111,117,108,100,32,99,111,110,116,97,105,110,32,111,110,108,121,32,65,83,67,73,73,32,99,104,97,114,97,99,116,101,114,115>>,
   B64 |->
     <<73,110,99,111,114,114,101,99,116,32,112,97,100,100,105,110,103>>,
   Index |->
     <<105,110,100,101,120,32,111,117,116,32,111,102,32,114,97,110,103,101>>,
   Zlib |->
     <<69,114,114,111,114,32,119,104,105,108,101,32,100,101,99,111,109,112,114,101,115,115,105,110,103,32,100,97,116,97>>,
   Utf8 |->
     <<39,117,116,102,45,56,39,32,99,111,100,101,99,32,99,97,110,39,116,32,100,101,99,111,100,101>>,
   Json |->
     <<69,120,112,101,99,116,105,110,103,32,118,97,108,117,101>>,
   Conn |->
     <<67,111,110,110,101,99,116,105,111,110,32,101,114,114,111,114>>,
   Http |->
     <<72,84,84,80,32,69,114,114,111,114,32,102,111,114,32,117,114,108>>,
   NoGet |->
     <<111,98,106,101,99,116,32,104,97,115,32,110,111,32,97,116,116,114,105,98,117,116,101,32,39,103,101,116,39>>]

Exc(type, msg) == [type |-> type, msg |-> msg]
NoExc == Exc("none", <<>>)

ExceptionClasses ==
  {"Exception", "TypeError", "ValueError", "IndexError", "AttributeError",
   "zlib.error", "binascii.Error", "UnicodeDecodeError", "JSONDecodeError",
   "ConnectionError", "HTTPError"}

\* ------------------------------------------------------------------------
\* encrypt_aes_payload (lines 34-47)
\* ------------------------------------------------------------------------
\* Lines 43-45, given the padded bytes: AES.new refuses a key that is not
\* 16, 24 or 32 bytes and an iv that is not one block.
EncryptCipher(compressed_bytes, padded_bytes, key_bytes, iv_bytes) ==
  [compressed |-> compressed_bytes,
   padded |-> padded_bytes,
   exc |-> IF Len(key_bytes) \notin {16, 24, 32} THEN Exc("ValueError", Message.KeyLen)
           ELSE IF Len(iv_bytes) # BlockSize THEN Exc("ValueError", Message.IvLen)
           ELSE IF Len(padded_bytes) % BlockSize # 0 THEN Exc("ValueError", Message.BlockAlign)
           ELSE NoExc,
   ret |-> IF AesCbcEncrypt(key_bytes, iv_bytes, padded_bytes).ok
           THEN b64encode(AesCbcEncrypt(key_bytes, iv_bytes, padded_bytes).bytes)
           ELSE <<>>]

\* Lines 39-42, given the compressed bytes.
EncryptPadded(compressed_bytes, key_string, iv_string) ==
  EncryptCipher(compressed_bytes, Pkcs7Pad(compressed_bytes),
                Utf8Encode(key_string), Utf8Encode(iv_string))

\* The try body (lines 36-45): [exc, compressed, padded, ret].
EncryptBody(data_dict, key_string, iv_string) ==
  EncryptPadded(Deflate(Utf8Encode(JsonDumps(data_dict))), key_string, iv_string)

\* `except Exception as e` of line 46.
EncryptCatches(e) == e.type \in ExceptionClasses

\* Lines 46-47 applied to the outcome b of the try body.
EncryptExcept(b) ==
  [exc |-> b.exc, compressed |-> b.compressed, padded |-> b.padded,
   failed |-> b.exc # NoExc,
   raised |-> b.exc # NoExc /\ ~EncryptCatches(b.exc),
   ret |-> IF b.exc = NoExc THEN b.ret
           ELSE IF EncryptCatches(b.exc) THEN S_AesErr \o b.exc.msg
           ELSE <<>>]

\* The whole function: [raised, failed, exc, compressed, padded, ret]; ret
\* is the base64 text, or "AES Encryption Error: <e>" after a failure.
EncryptTrace(data_dict, key_string, iv_string) ==
  EncryptExcept(EncryptBody(data_dict, key_string, iv_string))

encrypt_aes_payload(data_dict, key_string, iv_string) ==
  EncryptTrace(data_dict, key_string, iv_string).ret

\* ------------------------------------------------------------------------
\* encrypt_rsa (lines 49-56). PKCS#1 v1.5 encryption pads the message with
\* random bytes, so the ciphertext of a given message is not determined by
\* it: `cipher` is the 128-byte ciphertext the library produced this time,
\* chosen by the environment. A message longer than the modulus allows
\* (128 - 11 bytes) raises ValueError.
\* ------------------------------------------------------------------------
RsaModulusLen == 128

RsaCatches(e) == e.type \in ExceptionClasses

\* Lines 51-54: [exc, ret].
RsaBody(data_bytes, cipher) ==
  IF Len(data_bytes) > RsaModulusLen - 11
  THEN [exc |-> Exc("ValueError", Message.TooLong), ret |-> <<>>]
  ELSE [exc |-> NoExc, ret |-> b64encode(cipher)]

\* Lines 55-56 applied to the outcome b of the try body.
RsaExcept(b) ==
  [exc |-> b.exc,
   failed |-> b.exc # NoExc,
   raised |-> b.exc # NoExc /\ ~RsaCatches(b.exc),
   ret |-> IF b.exc = NoExc THEN b.ret
           ELSE IF RsaCatches(b.exc) THEN S_RsaErr \o b.exc.msg
           ELSE <<>>]

RsaTrace(data_string, cipher) == RsaExcept(RsaBody(Utf8Encode(data_string), cipher))

encrypt_rsa(data_string, cipher) == RsaTrace(data_string, cipher).ret

\* ------------------------------------------------------------------------
\* decrypt_and_decompress_payload (lines 58-75)
\* ------------------------------------------------------------------------
\* A test that forgets the zero; PaddingValidity tells it from line 69.
OversizedPaddingOnly(pad_len) == pad_len > BlockSize

\* Line 69: the padding value that is refused.
InvalidPadding(pad_len) == pad_len > BlockSize \/ pad_len = 0

\* Line 71: padded_plaintext[:-pad_len] (Python slicing: -0 is 0, and a
\* length beyond the data leaves nothing).
StripPadding(padded_plaintext, pad_len) ==
  IF pad_len = 0 \/ pad_len >= Len(padded_plaintext) THEN <<>>
  ELSE Take(padded_plaintext, Len(padded_plaintext) - pad_len)

\* The try body gives [exc, padded, stripped, inflated, parsed, val]: padded
\* is the AES-CBC-decrypted data (empty before that stage), stripped the
\* number of bytes line 71 removed, inflated and parsed whether
\* zlib.decompress and json.loads were called, val the parsed value.
DecryptBase ==
  [exc |-> NoExc, padded |-> <<>>, stripped |-> 0,
   inflated |-> FALSE, parsed |-> FALSE, val |-> JNull]

DecryptFail(r, type, msg) == [r EXCEPT !.exc = Exc(type, msg)]

\* Line 73, json.loads of the decoded text.
DecryptParsed(r, j) ==
  IF ~j.ok THEN DecryptFail(r, "JSONDecodeError", Message.Json)
  ELSE [r EXCEPT !.val = j.val]

\* Line 73, the decoding of the decompressed bytes.
DecryptText(r, txt) ==
  IF ~txt.ok THEN DecryptFail(r, "UnicodeDecodeError", Message.Utf8)
  ELSE DecryptParsed([r EXCEPT !.parsed = TRUE], JsonLoads(txt.s))

\* Line 72, the outcome of zlib.decompress.
DecryptInflated(r, inf) ==
  IF ~inf.ok THEN DecryptFail(r, "zlib.error", Message.Zlib)
  ELSE DecryptText(r, Utf8Decode(inf.bytes))

\* Lines 71-72.
DecryptStripped(r, padded_plaintext, plaintext_bytes) ==
  DecryptInflated([r EXCEPT !.stripped = Len(padded_plaintext) - Len(plaintext_bytes),
                            !.inflated = TRUE],
                  Inflate(plaintext_bytes))

\* Lines 68-71, given the decrypted data.
DecryptPadded(r, padded_plaintext) ==
  IF padded_plaintext = <<>> THEN DecryptFail(r, "IndexError", Message.Index)
  ELSE IF InvalidPadding(padded_plaintext[Len(padded_plaintext)])
    THEN DecryptFail(r, "ValueError", S_InvalidPadding)
  ELSE DecryptStripped(r, padded_plaintext,
         StripPadding(padded_plaintext, padded_plaintext[Len(padded_plaintext)]))

\* Lines 64-67, given the outcome of b64decode.
DecryptCipher(decoded, key_bytes, iv_bytes) ==
  IF ~decoded.ok THEN DecryptFail(DecryptBase, "binascii.Error", Message.B64)
  ELSE IF Len(key_bytes) \notin {16, 24, 32} THEN DecryptFail(DecryptBase, "ValueError", Message.KeyLen)
  ELSE IF Len(iv_bytes) # BlockSize THEN DecryptFail(DecryptBase, "ValueError", Message.IvLen)
  ELSE IF Len(decoded.bytes) % BlockSize # 0
    THEN DecryptFail(DecryptBase, "ValueError", Message.BlockAlign)
  ELSE DecryptPadded([DecryptBase EXCEPT !.padded = CbcDecrypt(key_bytes, iv_bytes, decoded.bytes)],
                     CbcDecrypt(key_bytes, iv_bytes, decoded.bytes))

\* A decoder that leaves the text as it arrived; RoundTrip tells it from
\* lines 60-62.
NoRestoredPadding(b64) == b64

\* Lines 60-62: '=' restored when the length is not a multiple of 4.
RestorePadding(b64) ==
  IF Len(b64) % 4 # 0 THEN b64 \o Repeat(B64Pad, 4 - (Len(b64) % 4)) ELSE b64

\* Line 63, given the re-padded text.
DecryptDecoded(b64, key_string, iv_string) ==
  IF \E i \in 1..Len(b64) : b64[i] >= 128
  THEN DecryptFail(DecryptBase, "ValueError", Message.NonAscii)
  ELSE DecryptCipher(b64decode(b64), Utf8Encode(key_string), Utf8Encode(iv_string))

\* The try body (lines 60-73); len() of a value that is not a str (a JSON
\* number, true) raises TypeError.
DecryptBody(encrypted_data_b64, key_string, iv_string) ==
  IF encrypted_data_b64.t # "str" THEN DecryptFail(DecryptBase, "TypeError", Message.NoLen)
  ELSE DecryptDecoded(RestorePadding(encrypted_data_b64.v), key_string, iv_string)

\* A handler for ValueError alone; DecryptNeverRaises tells it from line 74.
CatchesValueErrorOnly(e) == e.type = "ValueError"

\* `except Exception as e` of line 74.
DecryptCatches(e) == e.type \in ExceptionClasses

\* Line 75: the record returned after a failure.
DecryptErrorRecord(e) == JObj(<< <<S_error, JStr(S_DecFailed \o e.msg)>> >>)

\* Lines 74-75 applied to the outcome b of the try body.
DecryptExcept(b) ==
  [exc |-> b.exc, padded |-> b.padded, stripped |-> b.stripped,
   inflated |-> b.inflated, parsed |-> b.parsed,
   failed |-> b.exc # NoExc,
   raised |-> b.exc # NoExc /\ ~DecryptCatches(b.exc),
   ret |-> IF b.exc = NoExc THEN b.val
           ELSE IF DecryptCatches(b.exc) THEN DecryptErrorRecord(b.exc)
           ELSE JNull]

\* The whole function: the body's fields plus raised, failed and ret.
DecryptTrace(encrypted_data_b64, key_string, iv_string) ==
  DecryptExcept(DecryptBody(encrypted_data_b64, key_string, iv_string))

decrypt_and_decompress_payload(encrypted_data_b64, key_string, iv_string) ==
  DecryptTrace(encrypted_data_b64, key_string, iv_string).ret

\* ------------------------------------------------------------------------
\* perform_request (lines 77-111)
\* ------------------------------------------------------------------------
\* Lines 82-87: "versionCode": "211", "from": "1201", "fp": "f271...b6db",
\* "referer": "", "uuid": "f6d98180-...-fdf3fcb93db6", "cur": "USD",
\* "username", "password", "captcha": "".
PlaintextData(username, password) ==
  JObj(<< <<<<118,101,114,115,105,111,110,67,111,100,101>>, JStr(<<50,49,49>>)>>,
          <<<<102,114,111,109>>, JStr(<<49,50,48,49>>)>>,
          <<<<102,112>>,
            JStr(<<102,50,55,49,100,50,49,57,48,48,49,54,56,98,98,102,57,49,50,53,54,53,52,101,51,51,98,51,98,54,100,98>>)>>,
          <<<<114,101,102,101,114,101,114>>, JStr(<<>>)>>,
          <<<<117,117,105,100>>,
            JStr(<<102,54,100,57,56,49,56,48,45,56,55,54,100,45,49,49,102,48,45,98,100,48,57,45,102,100,102,51,102,99,98,57,51,100,98,54>>)>>,
          <<<<99,117,114>>, JStr(<<85,83,68>>)>>,
          <<<<117,115,101,114,110,97,109,101>>, JStr(username)>>,
          <<<<112,97,115,115,119,111,114,100>>, JStr(password)>>,
          <<<<99,97,112,116,99,104,97>>, JStr(<<>>)>> >>)

\* f"{username}:{password}"
Creds(username, password) == username \o <<58>> \o password

\* Line 92: the test that decides an encoder result is a failure.
LooksLikeError(encrypted_data, encrypted_key_rsa, encrypted_iv_rsa) ==
  \/ Contains(encrypted_data, S_Error)
  \/ Contains(encrypted_key_rsa, S_Error)
  \/ Contains(encrypted_iv_rsa, S_Error)

\* response.raise_for_status() of requests: HTTPError for a 4xx or 5xx
\* status, nothing for any other status.
RaiseForStatus(status) == status >= 400 /\ status < 600

\* Lines 105: the decoded response counts as a login.
HasToken(decrypted_response) ==
  IsDict(decrypted_response) /\ Truthy(DictGet(decrypted_response, S_token))

\* The reply of the network to the POST of line 97, http:
\*   [kind |-> "conn_error"]                       requests.post raised
\*   [kind |-> "response", status, json_ok, json]  a response; json_ok is
\*       whether its body parses as JSON, json the parsed value.
\* The try body gives [exc, sent, enc_failed, aborted, request_body, is_hit,
\* response_json]. sent: the POST was issued; enc_failed: one of the three
\* encoder calls really failed; aborted: line 93 raised.
RequestFail(r, e) == [r EXCEPT !.exc = e]

\* Lines 104-106, given the outcome of the decoder.
RequestDecoded(r, decrypted) ==
  IF decrypted.raised THEN RequestFail(r, decrypted.exc)
  ELSE [r EXCEPT !.is_hit = HasToken(decrypted.ret)]

\* Lines 102-104.
RequestData(r, encrypted_response_data) ==
  IF ~Truthy(encrypted_response_data) THEN r
  ELSE RequestDecoded(r, DecryptTrace(encrypted_response_data, REQ_KEY, REQ_IV))

\* Lines 99-102: a JSON body that is not an object has no .get.
RequestJson(r, response_json) ==
  IF ~IsDict(response_json) THEN RequestFail(r, Exc("AttributeError", Message.NoGet))
  ELSE RequestData([r EXCEPT !.response_json = response_json],
                   DictGet(response_json, S_data))

\* Lines 97-99.
RequestSent(r, http) ==
  IF http.kind = "conn_error" THEN RequestFail(r, Exc("ConnectionError", Message.Conn))
  ELSE IF RaiseForStatus(http.status) THEN RequestFail(r, Exc("HTTPError", Message.Http))
  ELSE IF ~http.json_ok THEN RequestFail(r, Exc("JSONDecodeError", Message.Json))
  ELSE RequestJson(r, http.json)

\* Line 95: {"data": ..., "req_code": 4, "key": ..., "iv": ...}.
MakeRequestBody(encrypted_data, encrypted_key_rsa, encrypted_iv_rsa) ==
  JObj(<< <<S_data, JStr(encrypted_data)>>,
          <<<<114,101,113,95,99,111,100,101>>, JInt(4)>>,
          <<<<107,101,121>>, JStr(encrypted_key_rsa)>>,
          <<<<105,118>>, JStr(encrypted_iv_rsa)>> >>)

\* Lines 89-97, given the outcomes of the three encoder calls.
RequestEncoded(r, e_data, e_key, e_iv, http) ==
  IF e_data.raised THEN RequestFail(r, e_data.exc)
  ELSE IF e_key.raised THEN RequestFail(r, e_key.exc)
  ELSE IF e_iv.raised THEN RequestFail(r, e_iv.exc)
  ELSE IF LooksLikeError(e_data.ret, e_key.ret, e_iv.ret)
    THEN [r EXCEPT !.exc = Exc("Exception", S_EncFailed), !.aborted = TRUE]
  ELSE RequestSent([r EXCEPT !.sent = TRUE,
                             !.request_body = MakeRequestBody(e_data.ret, e_key.ret, e_iv.ret)],
                   http)

RequestBase(e_data, e_key, e_iv) ==
  [exc |-> NoExc, sent |-> FALSE,
   enc_failed |-> e_data.failed \/ e_key.failed \/ e_iv.failed,
   aborted |-> FALSE, request_body |-> JNull, is_hit |-> FALSE,
   response_json |-> JNull]

RequestStart(e_data, e_key, e_iv, http) ==
  RequestEncoded(RequestBase(e_data, e_key, e_iv), e_data, e_key, e_iv, http)

\* The try body (lines 80-108). cipher_key and cipher_iv are the RSA
\* ciphertexts the library produces for the key and for the iv.
RequestBody(username, password, cipher_key, cipher_iv, http) ==
  RequestStart(EncryptTrace(PlaintextData(username, password), REQ_KEY, REQ_IV),
               RsaTrace(REQ_KEY, cipher_key), RsaTrace(REQ_IV, cipher_iv), http)

\* `except Exception as e` of line 110.
RequestCatches(e) == e.type \in ExceptionClasses

\* Lines 108-111 applied to the outcome b of the try body.
RequestExcept(b, pair) ==
  [exc |-> b.exc, sent |-> b.sent, enc_failed |-> b.enc_failed,
   aborted |-> b.aborted, request_body |-> b.request_body,
   creds |-> pair,
   raised |-> b.exc # NoExc /\ ~RequestCatches(b.exc),
   is_hit |-> b.exc = NoExc /\ b.is_hit,
   response_data |-> IF b.exc = NoExc THEN b.response_json
                     ELSE IF RequestCatches(b.exc)
                       THEN JObj(<< <<S_error, JStr(b.exc.msg)>> >>)
                     ELSE JNull]

\* The whole function: [raised, is_hit, creds, response_data] (the returned
\* triple) with the body's sent, enc_failed, aborted, exc and request_body.
perform_request(username, password, cipher_key, cipher_iv, http) ==
  RequestExcept(RequestBody(username, password, cipher_key, cipher_iv, http),
                Creds(username, password))

\* ========================================================================
\* State. Three specifications share the module: SpecCodec applies the
\* encoder, the decoder and the padding to inputs drawn in its initial
\* states; SpecRequest resolves one perform_request; SpecBatch is the batch
\* loop of main. The variables of the other two stay at their idle values.
\* ========================================================================
VARIABLES
  cpc,        \* codec: "idle" | "record" | "encrypted" | "roundtrip" | "sample" | "decoded" | "pad" | "padded"
  rec,        \* codec: the record given to encrypt_aes_payload
  ckey,       \* codec: <<key_string, iv_string>>
  enc,        \* codec: the trace of encrypt_aes_payload
  din,        \* codec: the value given to decrypt_and_decompress_payload
  dec,        \* codec: the trace of decrypt_and_decompress_payload
  padIn,      \* codec: the compressed bytes given to the padding
  padOut,     \* codec: the padded bytes
  rpc,        \* request: "idle" | "pending" | "resolved"
  rin,        \* request: [username, password], then also the drawn reply
  rres,       \* request: the trace of perform_request
  mpc,        \* main: "idle" | "submit" | "wait" | "check" | "process" | "shutdown" | "shutdown_exc" | "summary" | "done" | "crashed"
  credentials,\* main: the list of <<username, password>> read from the file
  endpoint,   \* what answers the requests: the cases of BatchCases it can give
  task,       \* per submitted pair: [st: "new" | "queued" | "running" | "done", result]
  yielded,    \* futures as_completed has handed to the loop
  future,     \* main: the loop variable (0 before the first iteration)
  creds,      \* main: the local `creds` (Unbound before line 154 binds it)
  stop_event, \* threading.Event of line 135
  checked,    \* main: line 133
  hits,       \* main: line 131
  fails,      \* main: line 132
  out,        \* lines printed, each with the pair it was printed for
  observed,   \* the test of line 149 has found stop_event set
  recorded,   \* per pair: what the loop counted it as, "none" | "hit" | "fail"
  atBreak     \* the tasks queued and running when line 149 found stop_event set

cvars == <<cpc, rec, ckey, enc, din, dec, padIn, padOut>>
rvars == <<rpc, rin, rres>>
bvars == <<mpc, credentials, endpoint, task, yielded, future, creds, stop_event,
           checked, hits, fails, out, observed, recorded, atBreak>>
vars == <<cvars, rvars, bvars>>

None == [none |-> TRUE]

CodecIdle ==
  /\ cpc = "idle" /\ rec = None /\ ckey = None /\ enc = None
  /\ din = None /\ dec = None /\ padIn = <<>> /\ padOut = <<>>

RequestIdle == rpc = "idle" /\ rin = None /\ rres = None

Unbound == <<-1>>

BatchIdle ==
  /\ mpc = "idle" /\ credentials = <<>> /\ endpoint = {} /\ task = <<>>
  /\ yielded = {} /\ future = 0 /\ creds = Unbound /\ stop_event = FALSE
  /\ checked = 0 /\ hits = 0 /\ fails = 0 /\ out = <<>>
  /\ observed = FALSE /\ recorded = <<>> /\ atBreak = [queued |-> {}, running |-> {}]

\* ------------------------------------------------------------------------
\* Inputs of SpecCodec.
\* ------------------------------------------------------------------------
\* Longest value string of a drawn record.
MaxStrLen == 2
\* Longest compressed plaintext given to the padding alone.
MaxPadInput == 33
\* Largest last byte of the crafted decoder inputs (besides 255).
MaxLastByte == 18

\* 'a', '"' (escaped with a backslash), U+00E9 (escaped as é), newline.
CharSet == {97, 34, 233, 10}

\* The strings of at most n characters.
Strings(n) == UNION {[1..m -> CharSet] : m \in 0..n}

\* Two field names: "k" and "\"é".
FieldNames == <<<<107>>, <<34, 233>>>>

\* Records of no, one and two fields; the second value of a record of two
\* fields is one character shorter.
Records ==
  {JObj(<<>>)}
  \cup {JObj(<< <<FieldNames[i], JStr(v)>> >>) : i \in 1..2, v \in Strings(MaxStrLen)}
  \cup {JObj(<< <<FieldNames[i], JStr(v)>>, <<FieldNames[3 - i], JStr(w)>> >>) :
          i \in 1..2, v \in Strings(MaxStrLen), w \in Strings(MaxStrLen - 1)}

\* Key/IV pairs: the pair of perform_request (AES-256), a 16-byte key with
\* another IV, and two pairs AES.new refuses (a 3-byte key, a 3-byte IV).
KeyPairs ==
  << <<REQ_KEY, REQ_IV>>,
     <<[j \in 1..16 |-> 64 + j], [j \in 1..16 |-> 48 + (j % 10)]>>,
     <<<<97, 98, 99>>, REQ_IV>>,
     <<REQ_KEY, <<97, 98, 99>>>> >>
ValidKeyPair(kp) == Len(Utf8Encode(kp[1])) \in {16, 24, 32} /\ Len(Utf8Encode(kp[2])) = BlockSize

\* A valid envelope under REQ_KEY whose decrypted last byte is replaced by
\* `last`: what a peer holding the key can send.
SamplePadded == EncryptTrace(JObj(<< <<S_msg, JStr(<<111, 107>>)>> >>), REQ_KEY, REQ_IV).padded
WithLastByte(bytes, last) == [i \in 1..Len(bytes) |-> IF i = Len(bytes) THEN last ELSE bytes[i]]
Envelope(bytes) == JStr(b64encode(AesCbcEncrypt(REQ_KEY, REQ_IV, bytes).bytes))

\* Other decoder inputs, one per stage that can fail.
OtherSamples ==
  << JStr(<<>>),                                   \* nothing to decrypt
     JInt(5),                                      \* not a str
     JStr(<<81, 233, 85>>),                        \* a non-ASCII character
     JStr(<<81>>),                                 \* one base64 character
     JStr(<<81, 85, 74, 68>>),                     \* three bytes: not a block
     Envelope(Pkcs7Pad(<<7, 0, 0>>)),              \* reserved DEFLATE block type
     Envelope(Pkcs7Pad(<<1, 2, 0, 0, 0, 1, 1>>)),  \* LEN/NLEN mismatch
     Envelope(Pkcs7Pad(Deflate(<<128>>))),         \* not UTF-8
     Envelope(Pkcs7Pad(Deflate(<<123, 34>>))),     \* not JSON
     Envelope(Pkcs7Pad(Deflate(<<91, 49, 93>>))),  \* JSON, not an object
     Envelope(Pkcs7Pad(Deflate(Utf8Encode(JsonDumps(JObj(<< <<S_token, JStr(<<97>>)>> >>)))))),
     Envelope(Repeat(16, 16)) >>                   \* a block of padding only

\* The sample with every last byte of 0..MaxLastByte and 255, then the
\* others.
DecoderSamples ==
  [n \in 1..(MaxLastByte + 2) |->
     Envelope(WithLastByte(SamplePadded, IF n = MaxLastByte + 2 THEN 255 ELSE n - 1))]
  \o OtherSamples

\* The base64 text without its trailing '='.
RECURSIVE StripEquals(_)
StripEquals(s) ==
  IF s # <<>> /\ s[Len(s)] = B64Pad THEN StripEquals(Take(s, Len(s) - 1)) ELSE s

InitCodec ==
  /\ RequestIdle /\ BatchIdle
  /\ enc = None /\ dec = None /\ padOut = <<>>
  /\ \/ /\ cpc = "record"
        /\ rec \in Records
        /\ \E i \in 1..Len(KeyPairs) : ckey = KeyPairs[i]
        /\ din = None /\ padIn = <<>>
     \/ /\ cpc = "sample"
        /\ \E i \in 1..Len(DecoderSamples) : din = DecoderSamples[i]
        /\ \E i \in 1..Len(KeyPairs) : ckey = KeyPairs[i]
        /\ rec = None /\ padIn = <<>>
     \/ /\ cpc = "pad"
        /\ \E n \in 0..MaxPadInput, fill \in {0, 16, 255} : padIn = Repeat(fill, n)
        /\ rec = None /\ ckey = None /\ din = None

\* encrypt_aes_payload(rec, key, iv)
Encrypt ==
  /\ cpc = "record"
  /\ enc' = EncryptTrace(rec, ckey[1], ckey[2])
  /\ cpc' = "encrypted"
  /\ UNCHANGED <<rec, ckey, din, dec, padIn, padOut, rvars, bvars>>

\* decrypt_and_decompress_payload on the encoder's own result, as it is or
\* with its trailing '=' removed in transit.
DecryptOwn ==
  /\ cpc = "encrypted"
  /\ \E strip \in BOOLEAN :
       /\ din' = JStr(IF strip THEN StripEquals(enc.ret) ELSE enc.ret)
       /\ dec' = DecryptTrace(din', ckey[1], ckey[2])
  /\ cpc' = "roundtrip"
  /\ UNCHANGED <<rec, ckey, enc, padIn, padOut, rvars, bvars>>

\* decrypt_and_decompress_payload on a value received from a peer.
DecryptSample ==
  /\ cpc = "sample"
  /\ dec' = DecryptTrace(din, ckey[1], ckey[2])
  /\ cpc' = "decoded"
  /\ UNCHANGED <<rec, ckey, enc, din, padIn, padOut, rvars, bvars>>

\* Lines 39-40 on their own.
ApplyPad ==
  /\ cpc = "pad"
  /\ padOut' = Pkcs7Pad(padIn)
  /\ cpc' = "padded"
  /\ UNCHANGED <<rec, ckey, enc, din, dec, padIn, rvars, bvars>>

NextCodec == Encrypt \/ DecryptOwn \/ DecryptSample \/ ApplyPad

SpecCodec == InitCodec /\ [][NextCodec]_vars

\* ------------------------------------------------------------------------
\* Properties of the codec (SpecCodec).
\* ------------------------------------------------------------------------
Decoded == cpc \in {"roundtrip", "decoded"}

IsPrefix(p, s) == Len(p) <= Len(s) /\ Take(s, Len(p)) = p

\* C1: for every record and every valid key/IV pair, decoding what the
\* encoder produced (as it is, or with its trailing '=' lost) with the same
\* key and IV succeeds and returns a record equal to the one encoded.
RoundTrip ==
  (cpc = "roundtrip" /\ ValidKeyPair(ckey)) =>
    /\ ~enc.failed
    /\ ~dec.failed
    /\ DictEq(dec.ret, rec)
    /\ dec.ret = rec

\* A record of two fields, the first with a name and a value that need
\* escaping, came back from a text that had lost its '='.
RoundTripReached ==
  /\ cpc = "roundtrip" /\ ValidKeyPair(ckey)
  /\ Len(rec.v) = 2 /\ rec.v[1][1] = <<34, 233>> /\ rec.v[1][2].v = <<10>>
  /\ din.v # enc.ret
  /\ dec.ret = rec

\* The record line 75 builds: exactly one field, "error", whose value
\* starts with "Decryption Failed: ".
IsErrorRecord(x) ==
  /\ IsDict(x)
  /\ Len(x.v) = 1
  /\ x.v[1][1] = S_error
  /\ x.v[1][2].t = "str"
  /\ IsPrefix(S_DecFailed, x.v[1][2].v)

\* C4: the decoder never raises; a failure at any stage returns a record of
\* exactly one field, the error description, in which the driver's test of
\* line 105 finds no token.
DecryptNeverRaises ==
  Decoded =>
    /\ ~dec.raised
    /\ dec.failed => (IsErrorRecord(dec.ret) /\ ~HasToken(dec.ret))

\* A failure of the last stage: the inflated text is not JSON.
DecryptFailureReached ==
  /\ Decoded /\ dec.failed /\ dec.parsed
  /\ dec.exc.type = "JSONDecodeError"
  /\ IsErrorRecord(dec.ret)

LastByte(bytes) == bytes[Len(bytes)]

\* C5: when the last decrypted byte is 0 or above 16 the decoder fails with
\* "Invalid padding value.", having stripped, inflated and parsed nothing;
\* when it is in 1..16 exactly that many bytes are stripped and the rest is
\* given to zlib.
PaddingValidity ==
  (Decoded /\ dec.padded # <<>>) =>
    /\ (LastByte(dec.padded) = 0 \/ LastByte(dec.padded) > BlockSize) =>
         /\ dec.failed
         /\ dec.exc = Exc("ValueError", S_InvalidPadding)
         /\ dec.ret = DecryptErrorRecord(Exc("ValueError", S_InvalidPadding))
         /\ dec.stripped = 0 /\ ~dec.inflated /\ ~dec.parsed
    /\ LastByte(dec.padded) \in 1..BlockSize =>
         /\ dec.stripped = LastByte(dec.padded)
         /\ dec.inflated

\* A decrypted text that ends with a zero byte was refused.
ZeroPaddingReached ==
  /\ Decoded /\ dec.padded # <<>> /\ LastByte(dec.padded) = 0
  /\ dec.failed /\ dec.stripped = 0

\* padded is compressed followed by pad_len bytes of value pad_len.
PaddedAs(compressed, padded, pad_len) ==
  /\ Len(padded) = Len(compressed) + pad_len
  /\ Take(padded, Len(compressed)) = compressed
  /\ \A i \in (Len(compressed) + 1)..Len(padded) : padded[i] = pad_len

PaddingOf(compressed, padded) ==
  /\ PaddedAs(compressed, padded, 16 - (Len(compressed) % 16))
  /\ Len(padded) - Len(compressed) \in 1..16
  /\ Len(padded) > 0 /\ Len(padded) % 16 = 0
  /\ Len(compressed) % 16 = 0 => Len(padded) = Len(compressed) + 16

\* C8: the encoder appends 16 - (n mod 16) bytes of that value to a
\* compressed plaintext of n bytes: one to sixteen bytes, a padded length
\* that is a positive multiple of 16, a full block when n is a multiple
\* of 16 (zero included).
EncoderPadding ==
  /\ cpc = "padded" => PaddingOf(padIn, padOut)
  /\ cpc \in {"encrypted", "roundtrip"} => PaddingOf(enc.compressed, enc.padded)

\* A block-aligned plaintext of sixteen bytes was padded to thirty-two.
AlignedPaddingReached ==
  /\ cpc = "padded" /\ Len(padIn) = 16 /\ Len(padOut) = 32
  /\ padOut[32] = 16

\* ========================================================================
\* SpecRequest: one perform_request, from pending to resolved.
\* ========================================================================
Usernames == {<<117>>, <<97, 64, 98>>, <<>>}
Passwords == {<<112>>, <<58, 34>>}

\* RSA ciphertexts the library can produce (the random padding decides):
\* one whose base64 text starts with "EjRW", one whose base64 text starts
\* with "Error".
RsaCiphers ==
  << <<18, 52, 86, 120>> \o [j \in 1..(RsaModulusLen - 4) |-> (7 * j) % 256],
     <<18, 186, 232, 172>> \o [j \in 1..(RsaModulusLen - 4) |-> (7 * j) % 256] >>

\* What the server sends in "data": a record encoded under the request's
\* key and IV.
ServerEnvelope(x) == JStr(encrypt_aes_payload(x, REQ_KEY, REQ_IV))

ConnError == [kind |-> "conn_error", status |-> 0, json_ok |-> FALSE, json |-> JNull]
Reply(status, json) == [kind |-> "response", status |-> status, json_ok |-> TRUE, json |-> json]
NonJsonReply(status) == [kind |-> "response", status |-> status, json_ok |-> FALSE, json |-> JNull]
DataReply(status, data) == Reply(status, JObj(<< <<S_data, data>> >>))

TokenRecord(token) == JObj(<< <<S_token, JStr(token)>> >>)
MsgRecord == JObj(<< <<S_msg, JStr(<<110, 111>>)>> >>)

HttpReplies ==
  << ConnError,
     Reply(404, MsgRecord),
     NonJsonReply(500),
     NonJsonReply(200),
     Reply(200, JArr(<<JInt(1)>>)),
     Reply(200, MsgRecord),
     DataReply(200, JStr(<<>>)),
     DataReply(200, JInt(5)),
     DataReply(200, ServerEnvelope(TokenRecord(<<97, 98, 99>>))),
     DataReply(200, ServerEnvelope(TokenRecord(<<>>))),
     DataReply(200, ServerEnvelope(MsgRecord)),
     DataReply(200, JStr(<<81, 85, 74, 68>>)),
     DataReply(200, Envelope(Pkcs7Pad(Deflate(<<91, 49, 93>>)))),
     DataReply(201, ServerEnvelope(TokenRecord(<<97, 98, 99>>))),
     DataReply(200, JStr(StripEquals(ServerEnvelope(TokenRecord(<<97, 98, 99>>)).v))),
     DataReply(300, ServerEnvelope(TokenRecord(<<97, 98, 99>>))),
     Reply(300, MsgRecord) >>

InitRequest ==
  /\ CodecIdle /\ BatchIdle
  /\ rpc = "pending"
  /\ \E u \in Usernames, p \in Passwords :
       rin = [username |-> u, password |-> p, cipher_key |-> 0, cipher_iv |-> 0, http |-> 0]
  /\ rres = None

\* perform_request(username, password, url): the library draws the two RSA
\* ciphertexts, the network the reply.
Resolve ==
  /\ rpc = "pending"
  /\ \E k \in 1..Len(RsaCiphers), v \in 1..Len(RsaCiphers), h \in 1..Len(HttpReplies) :
       /\ rin' = [rin EXCEPT !.cipher_key = k, !.cipher_iv = v, !.http = h]
       /\ rres' = perform_request(rin.username, rin.password,
                               RsaCiphers[k], RsaCiphers[v], HttpReplies[h])
  /\ rpc' = "resolved"
  /\ UNCHANGED <<cvars, bvars>>

NextRequest == Resolve

SpecRequest == InitRequest /\ [][NextRequest]_vars

\* ------------------------------------------------------------------------
\* Properties of the request driver (SpecRequest).
\* ------------------------------------------------------------------------
Resolved == rpc = "resolved"

TheReply == HttpReplies[rin.http]

\* The POST was issued and answered with a 2xx status and a JSON body.
TransportSucceeded ==
  /\ rres.sent
  /\ TheReply.kind = "response"
  /\ TheReply.status \in 200..299
  /\ TheReply.json_ok

\* The POST was issued and met a network error, a status that is not 2xx
\* or a body that is not JSON.
TransportFailed ==
  /\ rres.sent
  /\ \/ TheReply.kind = "conn_error"
     \/ TheReply.status \notin 200..299
     \/ ~TheReply.json_ok

\* A record with a non-empty token field.
HasNonEmptyToken(x) ==
  IsDict(x) /\ HasKey(x, S_token) /\ Truthy(DictGet(x, S_token))

\* The response has a data field whose decoding with the request's key and
\* IV is a record with a non-empty token.
DataDecodesToToken(json) ==
  /\ IsDict(json)
  /\ HasKey(json, S_data)
  /\ HasNonEmptyToken(decrypt_and_decompress_payload(DictGet(json, S_data), REQ_KEY, REQ_IV))

\* C2: a pair resolves as a hit exactly when the transport succeeded (2xx
\* status, JSON body), the response has a data field and that field decodes
\* to a record with a non-empty token; otherwise it resolves as a non-hit.
HitIffToken ==
  Resolved => (rres.is_hit <=> (TransportSucceeded /\ DataDecodesToToken(TheReply.json)))

\* A reply with status 300 whose data decodes to a token resolved as a hit.
NonSuccessHitReached ==
  /\ Resolved /\ rres.is_hit
  /\ TheReply.status = 300
  /\ DataDecodesToToken(TheReply.json)

\* The same with the status test raise_for_status makes: any status that
\* is not 4xx or 5xx.
HitIffTokenUnlessRefused ==
  Resolved =>
    (rres.is_hit <=> /\ rres.sent
                     /\ TheReply.kind = "response"
                     /\ ~RaiseForStatus(TheReply.status)
                     /\ TheReply.json_ok
                     /\ DataDecodesToToken(TheReply.json))

\* The result record is {"error": <text of the exception>}.
CarriesErrorText ==
  /\ rres.exc # NoExc
  /\ rres.response_data = JObj(<< <<S_error, JStr(rres.exc.msg)>> >>)

\* C3: perform_request resolves without raising, for the pair it was
\* given; after an encryption failure or a transport failure (status that
\* is not 2xx, network error, body that is not JSON) it resolves as a
\* non-hit whose result record carries the error text.
ResolvesWithError ==
  Resolved =>
    /\ ~rres.raised
    /\ rres.creds = Creds(rin.username, rin.password)
    /\ (rres.enc_failed \/ TransportFailed) => (~rres.is_hit /\ CarriesErrorText)

\* A reply with status 300 and no token resolved as a non-hit whose result
\* record is the reply itself, with no error text.
SilentNonSuccessReached ==
  /\ Resolved /\ ~rres.is_hit
  /\ TheReply.status = 300
  /\ rres.exc = NoExc
  /\ rres.response_data = TheReply.json

\* What holds of every resolution: no exception leaves perform_request,
\* the pair is the one given, and an exception inside it gives a non-hit
\* that carries its text.
ResolvesWithoutRaising ==
  Resolved =>
    /\ ~rres.raised
    /\ rres.creds = Creds(rin.username, rin.password)
    /\ rres.exc # NoExc => (~rres.is_hit /\ CarriesErrorText)
    /\ (rres.sent /\ (TheReply.kind = "conn_error" \/ RaiseForStatus(TheReply.status)
                      \/ ~TheReply.json_ok)) => rres.exc # NoExc

\* C9: the attempt is aborted with the encryption-failure outcome exactly
\* when one of the three encoder calls failed; a request is sent for every
\* successfully encoded envelope.
AbortsIffEncoderFailed ==
  Resolved =>
    /\ rres.aborted <=> rres.enc_failed
    /\ ~rres.enc_failed => rres.sent

\* No encoder call failed, the encrypted key starts with "Error", and the
\* attempt was aborted without a request.
FalseAbortReached ==
  /\ Resolved /\ rres.aborted /\ ~rres.enc_failed /\ ~rres.sent
  /\ IsPrefix(S_Error, encrypt_rsa(REQ_KEY, RsaCiphers[rin.cipher_key]))
  /\ rres.response_data = JObj(<< <<S_error, JStr(S_EncFailed)>> >>)

\* What line 92 does: the attempt is aborted exactly when "Error" occurs in
\* one of the three encoder results.
AbortsIffErrorText ==
  Resolved =>
    (rres.aborted <=>
       LooksLikeError(encrypt_aes_payload(PlaintextData(rin.username, rin.password), REQ_KEY, REQ_IV),
                      encrypt_rsa(REQ_KEY, RsaCiphers[rin.cipher_key]),
                      encrypt_rsa(REQ_IV, RsaCiphers[rin.cipher_iv])))

\* ========================================================================
\* SpecBatch: the batch branch of main (lines 121-169).
\* ========================================================================
\* Longest credential list.
MaxPairs == 3
\* Threads of the pool. The code passes 20 (line 145); the model runs a
\* smaller pool so that lists longer than the pool exist within MaxPairs.
max_workers == 2

\* The i-th line of the file: "u<i>:pw".
BatchPair(i) == << <<117, 48 + i>>, <<112, 119>> >>

\* What an invocation can meet, as <<cipher_key, cipher_iv, http>> indices
\* into RsaCiphers and HttpReplies: a reply with a message and no data, a
\* reply with a token, a network error, a reply whose data does not decode.
BatchCases == << <<1, 1, 6>>, <<1, 1, 9>>, <<1, 1, 1>>, <<1, 1, 12>> >>

\* The cases that are no hit.
NonHitCases == {1, 3, 4}

\* What future.result() gives the loop: the returned triple, or the
\* exception of the invocation.
Result(t) ==
  [raised |-> t.raised, is_hit |-> t.is_hit, creds |-> t.creds,
   response_data |-> t.response_data]

NoResult == [raised |-> FALSE, is_hit |-> FALSE, creds |-> <<>>, response_data |-> JNull]

Outcome(i, c) ==
  Result(perform_request(BatchPair(i)[1], BatchPair(i)[2],
                         RsaCiphers[BatchCases[c][1]], RsaCiphers[BatchCases[c][2]],
                         HttpReplies[BatchCases[c][3]]))

\* perform_request of every pair in every case.
Outcomes ==
  [i \in 1..MaxPairs |-> <<Outcome(i, 1), Outcome(i, 2), Outcome(i, 3), Outcome(i, 4)>>] \o <<>>

Tasks == 1..Len(task)
InState(st) == {i \in Tasks : task[i].st = st}

InitBatch ==
  /\ CodecIdle /\ RequestIdle
  /\ mpc = "submit"
  /\ \E n \in 0..MaxPairs :
       /\ credentials = [i \in 1..n |-> BatchPair(i)]
       /\ task = [i \in 1..n |-> [st |-> "new", result |-> NoResult]]
       /\ recorded = [i \in 1..n |-> "none"]
  /\ endpoint \in {{c} : c \in NonHitCases} \cup {1..Len(BatchCases)}
  /\ yielded = {} /\ future = 0 /\ creds = Unbound /\ stop_event = FALSE
  /\ checked = 0 /\ hits = 0 /\ fails = 0 /\ out = <<>>
  /\ observed = FALSE /\ atBreak = [queued |-> {}, running |-> {}]

\* Line 146, one executor.submit of the comprehension: the next pair of
\* the list is queued.
Submit ==
  /\ mpc = "submit"
  /\ InState("new") # {}
  /\ task' = [task EXCEPT ![SetMin(InState("new"))].st = "queued"]
  /\ UNCHANGED <<mpc, credentials, endpoint, yielded, future, creds, stop_event,
                 checked, hits, fails, out, observed, recorded, atBreak, cvars, rvars>>

\* Lines 146-148: the comprehension is over, as_completed is entered.
AllSubmitted ==
  /\ mpc = "submit"
  /\ InState("new") = {}
  /\ mpc' = "wait"
  /\ UNCHANGED <<credentials, endpoint, task, yielded, future, creds, stop_event,
                 checked, hits, fails, out, observed, recorded, atBreak, cvars, rvars>>

\* A pool thread takes the oldest queued invocation.
Start ==
  /\ InState("queued") # {}
  /\ Cardinality(InState("running")) < max_workers
  /\ task' = [task EXCEPT ![SetMin(InState("queued"))].st = "running"]
  /\ UNCHANGED <<mpc, credentials, endpoint, yielded, future, creds, stop_event,
                 checked, hits, fails, out, observed, recorded, atBreak, cvars, rvars>>

\* A running perform_request returns: its future is done.
Finish ==
  /\ \E i \in InState("running"), c \in endpoint :
       task' = [task EXCEPT ![i] = [st |-> "done", result |-> Outcomes[i][c]]]
  /\ UNCHANGED <<mpc, credentials, endpoint, yielded, future, creds, stop_event,
                 checked, hits, fails, out, observed, recorded, atBreak, cvars, rvars>>

\* Line 148: as_completed hands over a finished future it has not handed
\* over yet.
NextCompleted ==
  /\ mpc = "wait"
  /\ \E i \in InState("done") \ yielded :
       /\ future' = i
       /\ yielded' = yielded \cup {i}
  /\ mpc' = "check"
  /\ UNCHANGED <<credentials, endpoint, task, creds, stop_event,
                 checked, hits, fails, out, observed, recorded, atBreak, cvars, rvars>>

\* Line 148: every future has been handed over, the loop ends.
Exhausted ==
  /\ mpc = "wait"
  /\ yielded = Tasks
  /\ mpc' = "shutdown"
  /\ UNCHANGED <<credentials, endpoint, task, yielded, future, creds, stop_event,
                 checked, hits, fails, out, observed, recorded, atBreak, cvars, rvars>>

\* Keeps processing whatever the event says; StopObserved tells it from
\* lines 149-150.
NeverBreak(stop) == "process"

\* Lines 149-150: where the loop goes after the test.
AfterCheck(stop) == IF stop THEN "shutdown" ELSE "process"

\* Lines 149-150.
CheckStop ==
  /\ mpc = "check"
  /\ mpc' = AfterCheck(stop_event)
  /\ observed' = stop_event
  /\ atBreak' = IF stop_event
                THEN [queued |-> InState("queued"), running |-> InState("running")]
                ELSE atBreak
  /\ UNCHANGED <<credentials, endpoint, task, yielded, future, creds, stop_event,
                 checked, hits, fails, out, recorded, cvars, rvars>>

Line(kind, i, c, msg, counts) ==
  [kind |-> kind, task |-> i, creds |-> c, msg |-> msg, counts |-> counts]

\* Counts every result as a fail; BatchCounts tells it from lines 156-160.
FailsAlways(is_hit, n) == n + 1

\* Lines 156-160.
NewHits(is_hit, n) == IF is_hit THEN n + 1 ELSE n
NewFails(is_hit, n) == IF is_hit THEN n ELSE n + 1

\* Lines 152-166, one iteration on the future in hand. When the
\* invocation raised, the handler of line 163 counts a fail and prints the
\* `creds` of an earlier iteration; before any was bound, line 166 raises
\* NameError, which leaves the loop.
Process ==
  /\ mpc = "process"
  /\ checked' = checked + 1
  /\ IF ~task[future].result.raised
     THEN /\ creds' = task[future].result.creds
          /\ hits' = NewHits(task[future].result.is_hit, hits)
          /\ fails' = NewFails(task[future].result.is_hit, fails)
          /\ recorded' = [recorded EXCEPT ![future] =
                            IF task[future].result.is_hit THEN "hit" ELSE "fail"]
          /\ out' = Append(out,
                      IF task[future].result.is_hit
                      THEN Line("HIT", future, task[future].result.creds, JNull, <<>>)
                      ELSE Line("FAIL", future, task[future].result.creds,
                                DictGetDefault(task[future].result.response_data, S_msg,
                                               JStr(S_UnknownError)), <<>>))
          /\ mpc' = "wait"
     ELSE /\ fails' = fails + 1
          /\ recorded' = [recorded EXCEPT ![future] = "fail"]
          /\ out' = IF creds = Unbound THEN out
                    ELSE Append(out, Line("FAIL", future, creds, JNull, <<>>))
          /\ mpc' = IF creds = Unbound THEN "shutdown_exc" ELSE "wait"
          /\ UNCHANGED <<creds, hits>>
  /\ UNCHANGED <<credentials, endpoint, task, yielded, future, stop_event,
                 observed, atBreak, cvars, rvars>>

\* Returns at once; BatchOrdering tells it from shutdown(wait=True).
ShutdownNoWait == TRUE

\* The exit of the `with` of line 145 is executor.shutdown(wait=True): it
\* returns when every submitted invocation has run and returned.
ShutdownReturns == \A i \in Tasks : task[i].st = "done"

\* Lines 145-167: leaving the `with` block.
Shutdown ==
  /\ mpc \in {"shutdown", "shutdown_exc"}
  /\ ShutdownReturns
  /\ mpc' = IF mpc = "shutdown" THEN "summary" ELSE "crashed"
  /\ UNCHANGED <<credentials, endpoint, task, yielded, future, creds, stop_event,
                 checked, hits, fails, out, observed, recorded, atBreak, cvars, rvars>>

\* Lines 168-169.
Summary ==
  /\ mpc = "summary"
  /\ out' = Append(out, Line("SUMMARY", 0, <<>>, JNull,
                             <<checked, Len(credentials), hits, fails>>))
  /\ mpc' = "done"
  /\ UNCHANGED <<credentials, endpoint, task, yielded, future, creds, stop_event,
                 checked, hits, fails, observed, recorded, atBreak, cvars, rvars>>

\* SIGINT: the handler of lines 137-139 runs in the main thread, wherever
\* it is. A second signal changes nothing but the message.
StopSignal ==
  /\ mpc \in {"submit", "wait", "check", "process", "shutdown", "shutdown_exc", "summary"}
  /\ ~stop_event
  /\ stop_event' = TRUE
  /\ out' = Append(out, Line("STOP", 0, <<>>, JNull, <<>>))
  /\ UNCHANGED <<mpc, credentials, endpoint, task, yielded, future, creds,
                 checked, hits, fails, observed, recorded, atBreak, cvars, rvars>>

NextBatch ==
  \/ Submit \/ AllSubmitted \/ Start \/ Finish
  \/ NextCompleted \/ Exhausted \/ CheckStop \/ Process
  \/ Shutdown \/ Summary \/ StopSignal

SpecBatch == InitBatch /\ [][NextBatch]_vars

\* ------------------------------------------------------------------------
\* Properties of the batch loop (SpecBatch).
\* ------------------------------------------------------------------------
\* The endpoint always gives one and the same reply, which is no hit.
FixedNonHit == \E c \in NonHitCases : endpoint = {c}

CountedAs(kind) == {i \in Tasks : recorded[i] = kind}

PairText(i) == Creds(credentials[i][1], credentials[i][2])

\* What the loop counted pair i as is what pair i's own invocation returned.
OwnOutcome(i) ==
  /\ task[i].st = "done"
  /\ ~task[i].result.raised
  /\ task[i].result.creds = PairText(i)
  /\ recorded[i] = IF task[i].result.is_hit THEN "hit" ELSE "fail"

\* A HIT or FAIL line names the pair it was printed for, and is the line
\* of that pair's own outcome.
OwnLine(l) ==
  l.kind \in {"HIT", "FAIL"} =>
    /\ l.creds = PairText(l.task)
    /\ recorded[l.task] = IF l.kind = "HIT" THEN "hit" ELSE "fail"

\* C6: at every point checked = hits + fails <= N, and every pair counted
\* is counted as its own invocation resolved, whatever happened to the
\* others; against the endpoint that always gives the fixed non-hit reply,
\* and without a stop signal, the batch ends with N checked, N fails and no
\* hit, in every order of completion.
BatchCounts ==
  /\ checked = hits + fails
  /\ checked <= Len(credentials)
  /\ hits = Cardinality(CountedAs("hit"))
  /\ fails = Cardinality(CountedAs("fail"))
  /\ \A i \in Tasks : recorded[i] # "none" => OwnOutcome(i)
  /\ \A k \in 1..Len(out) : OwnLine(out[k])
  /\ mpc # "crashed"
  /\ (mpc = "done" /\ FixedNonHit /\ ~stop_event) =>
       /\ checked = Len(credentials)
       /\ fails = Len(credentials)
       /\ hits = 0
       /\ out[Len(out)].counts = <<Len(credentials), Len(credentials), 0, Len(credentials)>>

\* A full list against the fixed endpoint ended with every pair a fail,
\* the first result processed not being the first pair's.
AllFailsReached ==
  /\ mpc = "done" /\ FixedNonHit /\ ~stop_event
  /\ Len(credentials) = MaxPairs
  /\ fails = MaxPairs /\ hits = 0 /\ checked = MaxPairs
  /\ out[1].task # 1

\* C7: stop_event is read only at line 149, with a finished future in
\* hand; once the test has found it set nothing more is processed (checked,
\* hits and fails keep their values); an invocation that is running is
\* never taken back, and those running at the break have returned when
\* main ends.
CooperativeStop ==
  /\ (observed' # observed) => (mpc = "check" /\ task[future].st = "done")
  /\ observed' => stop_event
  /\ observed =>
       /\ observed'
       /\ UNCHANGED <<checked, hits, fails, recorded>>
       /\ mpc' \notin {"wait", "check", "process"}
  /\ \A i \in Tasks : task[i].st = "running" => task'[i].st \in {"running", "done"}
  /\ mpc' = "done" => \A i \in atBreak.running : task'[i].st = "done"

StopObserved == [][CooperativeStop]_vars

\* Main ended after a break that left an invocation running and a pair
\* uncounted; the invocation has returned.
StopObservedReached ==
  /\ mpc = "done" /\ observed
  /\ atBreak.running # {}
  /\ \A i \in atBreak.running : task[i].st = "done" /\ recorded[i] = "none"
  /\ checked < Len(credentials)

Printed(kind) == \E k \in 1..Len(out) : out[k].kind = kind

\* C10: nothing is processed before every pair is submitted; the summary
\* is printed only when every submitted invocation has returned, stop or
\* no stop; the invocations still queued at the break have run and
\* returned by then, and are not counted.
BatchOrdering ==
  /\ (mpc \in {"check", "process"} \/ checked > 0 \/ Printed("HIT") \/ Printed("FAIL")) =>
       InState("new") = {}
  /\ (mpc \in {"summary", "done"} \/ Printed("SUMMARY")) =>
       \A i \in Tasks : task[i].st = "done"
  /\ mpc = "done" =>
       /\ Printed("SUMMARY")
       /\ \A i \in atBreak.queued : task[i].st = "done" /\ recorded[i] = "none"

\* Main ended after a break that found an invocation still queued: it
\* has run, and is not counted.
QueuedAtBreakReached ==
  /\ mpc = "done" /\ observed
  /\ atBreak.queued # {}
  /\ \A i \in atBreak.queued : task[i].st = "done" /\ recorded[i] = "none"
  /\ \E i \in atBreak.queued : task[i].result.is_hit

====
